---- MODULE Spec2Model ----
(***************************************************************************)
(* A model of MuPDF's buffered stream reader, source/fitz/stream-read.c:   *)
(* bulk read and skip, the slurp with its bomb guard, the line reader,     *)
(* tell/seek, the fixed-width integer decoders and the string reader.      *)
(*                                                                         *)
(* Byte blocks (the source's data, destination buffers) are run-length     *)
(* encoded sequences of [b |-> byte, n |-> count], so that streams of      *)
(* 100 MiB are values TLC can hold; the encoding is kept normalised        *)
(* (no empty run, no two adjacent runs of the same byte), so equality of   *)
(* two encodings is equality of the byte strings.                          *)
(***************************************************************************)
EXTENDS Integers, Sequences, FiniteSets, TLC

VARIABLES stm, skip_buf, last, threads

vars == <<stm, skip_buf, last, threads>>

(***************************************************************************)
(* Program constants.                                                      *)
(***************************************************************************)
EOF == -1
MIN_BOMB == 104857600
SKIP_BUF_SIZE == 4096
MIN_INITIAL == 1024
BOMB_RATIO == 200

CR == 13
LF == 10
NUL == 0

(***************************************************************************)
(* Bounds of the model.                                                    *)
(***************************************************************************)
MaxSmall == 3
MaxMult == 2
ChunkBig == 3000

Min(a, b) == IF a < b THEN a ELSE b
Max(a, b) == IF a > b THEN a ELSE b

(***************************************************************************)
(* Run-length encoded byte blocks.                                         *)
(***************************************************************************)
Run(b, n) == [b |-> b, n |-> n]

RECURSIVE RLen(_)
RLen(r) == IF r = <<>> THEN 0 ELSE Head(r).n + RLen(Tail(r))

RCat(a, b) ==
    IF a = <<>> THEN b
    ELSE IF b = <<>> THEN a
    ELSE IF a[Len(a)].b = b[1].b
         THEN SubSeq(a, 1, Len(a) - 1)
              \o <<Run(b[1].b, a[Len(a)].n + b[1].n)>> \o Tail(b)
         ELSE a \o b

RECURSIVE RTake(_, _)
RTake(r, n) ==
    IF n <= 0 \/ r = <<>> THEN <<>>
    ELSE IF Head(r).n <= n
         THEN <<Head(r)>> \o RTake(Tail(r), n - Head(r).n)
         ELSE <<Run(Head(r).b, n)>>

RECURSIVE RDrop(_, _)
RDrop(r, n) ==
    IF n <= 0 \/ r = <<>> THEN r
    ELSE IF Head(r).n <= n
         THEN RDrop(Tail(r), n - Head(r).n)
         ELSE <<Run(Head(r).b, Head(r).n - n)>> \o Tail(r)

RSlice(r, from, n) == RTake(RDrop(r, from), n)

RAt(r, i) == Head(RDrop(r, i)).b

RECURSIVE FromSeq(_)
FromSeq(q) == IF q = <<>> THEN <<>> ELSE RCat(<<Run(Head(q), 1)>>, FromSeq(Tail(q)))

\* memcpy(dst, src, len(src)): the first bytes of dst are overwritten, the rest kept.
Overwrite(dst, new) == RCat(new, RDrop(dst, RLen(new)))

(***************************************************************************)
(* Errors: fz_throw's code and message.                                    *)
(***************************************************************************)
NoErr == [code |-> "FZ_ERROR_NONE", msg |-> ""]
Generic(m) == [code |-> "FZ_ERROR_GENERIC", msg |-> m]
SourceErr(kind) == [code |-> kind, msg |-> "source"]

(***************************************************************************)
(* The stream.  stm.rp, stm.wp: read cursor and write limit of the window; *)
(* stm.pos: the source offset of the byte at wp; stm.eof: the sticky end   *)
(* flag; stm.avail: the bit accumulator's count; stm.taken: how many bytes  *)
(* were taken from the window since the stream was opened or repositioned  *)
(* by its native seek (a history count, which no code reads); stm.seek:    *)
(* whether the source has a native seek; stm.state: the source (its data,  *)
(* the size of the chunks it delivers, and a fault it raises once when     *)
(* asked for the data at offset fat).                                      *)
(***************************************************************************)
Total(s) == RLen(s.state.data)

\* The position without the bytes still in the window.
fz_tell_of_source(s) == s.pos

\* fz_tell
fz_tell(s) == s.pos - (s.wp - s.rp)

Remaining(s) == IF fz_tell(s) >= Total(s) THEN 0 ELSE Total(s) - fz_tell(s)

\* stm->rp += n (rp++ for one byte): n bytes leave the window.
Advance(s, n) == [s EXCEPT !.rp = @ + n, !.taken = @ + n]

\* The n bytes of the window at the read cursor.
Window(s, n) == RSlice(s.state.data, fz_tell(s), n)

\* stm->next(ctx, stm, max): the source's fill.  Returns the number of bytes
\* the window was extended by (0 at the end of the source), or throws.
next(s, max) ==
    IF s.state.fkind # "FZ_ERROR_NONE" /\ s.pos = s.state.fat
    THEN [s |-> [s EXCEPT !.state.fkind = "FZ_ERROR_NONE"], v |-> 0,
          e |-> SourceErr(s.state.fkind)]
    ELSE LET n == IF s.pos >= Total(s) THEN 0
                  ELSE Min(s.state.chunk, Total(s) - s.pos)
         IN  [s |-> [s EXCEPT !.wp = @ + n, !.pos = @ + n], v |-> n, e |-> NoErr]

\* fz_available after the fill: f is what stm->next gave.
fz_available_filled(f) ==
    IF f.e # NoErr THEN f
    ELSE IF f.v = 0 THEN [s |-> [f.s EXCEPT !.eof = TRUE], v |-> 0, e |-> NoErr]
    ELSE f

\* fz_available(ctx, stm, max)
fz_available(s, max) ==
    IF s.wp - s.rp # 0 THEN [s |-> s, v |-> s.wp - s.rp, e |-> NoErr]
    ELSE IF s.eof THEN [s |-> s, v |-> 0, e |-> NoErr]
    ELSE fz_available_filled(next(s, max))

\* fz_read_byte after the fill: the first byte of the new window is consumed.
fz_read_byte_filled(f) ==
    IF f.e # NoErr THEN [s |-> f.s, v |-> EOF, e |-> f.e]
    ELSE IF f.v = 0 THEN [s |-> [f.s EXCEPT !.eof = TRUE], v |-> EOF, e |-> NoErr]
    ELSE [s |-> Advance(f.s, 1),
          v |-> RAt(f.s.state.data, fz_tell(f.s)), e |-> NoErr]

\* fz_read_byte(ctx, stm)
fz_read_byte(s) ==
    IF s.rp # s.wp
    THEN [s |-> Advance(s, 1), v |-> RAt(s.state.data, fz_tell(s)), e |-> NoErr]
    ELSE IF s.eof THEN [s |-> s, v |-> EOF, e |-> NoErr]
    ELSE fz_read_byte_filled(next(s, 1))

\* fz_peek_byte after the fill: the first byte of the new window stays.
fz_peek_byte_filled(f) ==
    IF f.e # NoErr THEN [s |-> f.s, v |-> EOF, e |-> f.e]
    ELSE IF f.v = 0 THEN [s |-> [f.s EXCEPT !.eof = TRUE], v |-> EOF, e |-> NoErr]
    ELSE [s |-> f.s, v |-> RAt(f.s.state.data, fz_tell(f.s)), e |-> NoErr]

\* fz_peek_byte(ctx, stm)
fz_peek_byte(s) ==
    IF s.rp # s.wp
    THEN [s |-> s, v |-> RAt(s.state.data, fz_tell(s)), e |-> NoErr]
    ELSE IF s.eof THEN [s |-> s, v |-> EOF, e |-> NoErr]
    ELSE fz_peek_byte_filled(next(s, 1))

(***************************************************************************)
(* fz_read: the do-while loop.  buf is what has been copied to the         *)
(* destination so far; a throw of fz_available leaves it behind.           *)
(***************************************************************************)
RECURSIVE fz_read_loop(_, _, _, _)

\* One turn of the loop, a being what fz_available gave: the copy of
\* n = min(a, len) bytes, the advance of rp, and the test len > 0.
fz_read_copy(a, len, count, buf) ==
    LET n == IF a.v > len THEN len ELSE a.v
    IN  IF a.e # NoErr THEN [s |-> a.s, v |-> count, e |-> a.e, buf |-> buf]
        ELSE IF n = 0 THEN [s |-> a.s, v |-> count, e |-> NoErr, buf |-> buf]
        ELSE IF len - n > 0
             THEN fz_read_loop(Advance(a.s, n), len - n, count + n,
                               RCat(buf, Window(a.s, n)))
             ELSE [s |-> Advance(a.s, n), v |-> count + n, e |-> NoErr,
                   buf |-> RCat(buf, Window(a.s, n))]

fz_read_loop(s, len, count, buf) == fz_read_copy(fz_available(s, len), len, count, buf)

\* The first turn of the loop with no test to loop again.
fz_read_first(a, len) ==
    LET n == IF a.v > len THEN len ELSE a.v
    IN  IF a.e # NoErr THEN [s |-> a.s, v |-> 0, e |-> a.e, buf |-> <<>>]
        ELSE [s |-> Advance(a.s, n), v |-> n, e |-> NoErr,
              buf |-> Window(a.s, n)]

\* The read that returns what one call of fz_available gave.
fz_read_once(s, len) == fz_read_first(fz_available(s, len), len)

fz_read(s, len) == fz_read_loop(s, len, 0, <<>>)

(***************************************************************************)
(* fz_skip: bulk reads into skip_buf, at most sizeof(skip_buf) at a time.  *)
(***************************************************************************)
RECURSIVE fz_skip_loop(_, _, _, _)

\* One turn of the loop after its fz_read (r) of l bytes.
fz_skip_counted(r, sb, len, total, l) ==
    IF r.e # NoErr
    THEN [s |-> r.s, v |-> total, e |-> r.e, sb |-> Overwrite(sb, r.buf)]
    ELSE IF r.v < l
         THEN [s |-> r.s, v |-> total + r.v, e |-> NoErr, sb |-> Overwrite(sb, r.buf)]
         ELSE fz_skip_loop(r.s, Overwrite(sb, r.buf), len - r.v, total + r.v)

fz_skip_block(s, sb, len, total, l) == fz_skip_counted(fz_read(s, l), sb, len, total, l)

fz_skip_loop(s, sb, len, total) ==
    IF len = 0 THEN [s |-> s, v |-> total, e |-> NoErr, sb |-> sb]
    ELSE fz_skip_block(s, sb, len, total,
                       IF len > SKIP_BUF_SIZE THEN SKIP_BUF_SIZE ELSE len)

\* The skip of one block only: the loop left after its first turn.
fz_skip_one_block(s, sb, len) ==
    fz_skip_block(s, sb, Min(len, SKIP_BUF_SIZE), 0,
                  IF len > SKIP_BUF_SIZE THEN SKIP_BUF_SIZE ELSE len)

fz_skip(s, sb, len) == fz_skip_loop(s, sb, len, 0)

(***************************************************************************)
(* The fixed-width integer decoders.  A value of an unsigned C type is the *)
(* sequence of its bytes, most significant first (TLC's integers have 32   *)
(* bits; uint32_t and uint64_t values do not fit them).                    *)
(***************************************************************************)
\* (uintN_t) of fz_read_byte's int: EOF (-1) converts to all ones.
ToUint(c, w) ==
    IF c = EOF THEN [i \in 1..w |-> 255]
    ELSE [i \in 1..w |-> IF i = w THEN c ELSE 0]

\* x << bits, in x's width (bits is a multiple of 8 throughout the code).
Shl(x, bits) ==
    LET w == Len(x)
        k == bits \div 8
    IN  [i \in 1..w |-> IF i + k <= w THEN x[i + k] ELSE 0]

RECURSIVE BitOr(_, _)
BitOr(a, b) ==
    IF a = 0 THEN b
    ELSE IF b = 0 THEN a
    ELSE 2 * BitOr(a \div 2, b \div 2) + (IF a % 2 = 1 \/ b % 2 = 1 THEN 1 ELSE 0)

\* x | y
Or(x, y) == [i \in 1..Len(x) |-> BitOr(x[i], y[i])]

RECURSIVE OrAll(_)
OrAll(xs) == IF Len(xs) = 1 THEN xs[1] ELSE Or(xs[1], OrAll(Tail(xs)))

\* a == EOF, with EOF converted to a's unsigned type.
IsEOF(x) == \A i \in 1..Len(x) : x[i] = 255

\* The conversion of x to the function's return type of w bytes.
Trunc(x, w) == SubSeq(x, Len(x) - w + 1, Len(x))

\* The calls of fz_read_byte that open each decoder: k bytes, one after the other.
RECURSIVE ReadBytes(_, _, _)

ReadBytesGot(r, k, got) ==
    IF r.e # NoErr THEN [s |-> r.s, v |-> got, e |-> r.e]
    ELSE ReadBytes(r.s, k - 1, Append(got, r.v))

ReadBytes(s, k, got) ==
    IF k = 0 THEN [s |-> s, v |-> got, e |-> NoErr]
    ELSE ReadBytesGot(fz_read_byte(s), k, got)

\* The rest of a decoder, r being the bytes read: the conversions, the shifts,
\* the test against EOF of those among `tested`, the conversion to the return type.
Assemble(r, tw, shifts, rw, msg, tested) ==
    LET a == [i \in 1..Len(shifts) |-> ToUint(r.v[i], tw)]
    IN  IF r.e # NoErr THEN [s |-> r.s, v |-> <<>>, e |-> r.e]
        ELSE IF \E i \in tested : IsEOF(a[i])
             THEN [s |-> r.s, v |-> <<>>, e |-> Generic(msg)]
             ELSE [s |-> r.s,
                   v |-> Trunc(OrAll([i \in 1..Len(shifts) |-> Shl(a[i], shifts[i])]), rw),
                   e |-> NoErr]

\* One decoder: tw the width in bytes of the variables a, b, ..., shifts the
\* shift applied to each, rw the width of the return type.
Decode(s, tw, shifts, rw, msg) ==
    Assemble(ReadBytes(s, Len(shifts), <<>>), tw, shifts, rw, msg, 1..Len(shifts))

fz_read_uint16_swapped(s) == Decode(s, 4, <<0, 8>>, 2, "premature end of file in int16")

fz_read_uint16(s) == Decode(s, 4, <<8, 0>>, 2, "premature end of file in int16")

fz_read_uint24(s) == Decode(s, 4, <<16, 8, 0>>, 4, "premature end of file in int24")

\* The decoder with only its first byte tested against EOF.
fz_read_uint32_first_only(s) ==
    Assemble(ReadBytes(s, 4, <<>>), 4, <<24, 16, 8, 0>>, 4,
             "premature end of file in int32", {1})

fz_read_uint32(s) == Decode(s, 4, <<24, 16, 8, 0>>, 4, "premature end of file in int32")

fz_read_uint64(s) ==
    Decode(s, 8, <<56, 48, 40, 32, 24, 16, 8, 0>>, 8, "premature end of file in int64")

fz_read_uint16_le(s) == Decode(s, 4, <<0, 8>>, 2, "premature end of file in int16")

fz_read_uint24_le(s) == Decode(s, 4, <<0, 8, 16>>, 4, "premature end of file in int24")

fz_read_uint32_le(s) == Decode(s, 4, <<0, 8, 16, 24>>, 4, "premature end of file in int32")

fz_read_uint64_le(s) ==
    Decode(s, 8, <<0, 8, 16, 24, 32, 40, 48, 56>>, 8, "premature end of file in int64")

Decoders == {"fz_read_uint16", "fz_read_uint24", "fz_read_uint32", "fz_read_uint64",
             "fz_read_uint16_le", "fz_read_uint24_le", "fz_read_uint32_le",
             "fz_read_uint64_le"}

DecodeBy(d, s) ==
    CASE d = "fz_read_uint16" -> fz_read_uint16(s)
      [] d = "fz_read_uint24" -> fz_read_uint24(s)
      [] d = "fz_read_uint32" -> fz_read_uint32(s)
      [] d = "fz_read_uint64" -> fz_read_uint64(s)
      [] d = "fz_read_uint16_le" -> fz_read_uint16_le(s)
      [] d = "fz_read_uint24_le" -> fz_read_uint24_le(s)
      [] d = "fz_read_uint32_le" -> fz_read_uint32_le(s)
      [] d = "fz_read_uint64_le" -> fz_read_uint64_le(s)

(***************************************************************************)
(* fz_read_line.  mem is the destination: its n bytes (Unwritten until     *)
(* stored to) and whether a store fell outside them; si is s - mem.        *)
(***************************************************************************)
Unwritten == -2

NewMem(n) == [bytes |-> [i \in 1..n |-> Unwritten], oob |-> FALSE]

Store(mem, si, c) ==
    IF si + 1 \in DOMAIN mem.bytes
    THEN [mem EXCEPT !.bytes[si + 1] = c]
    ELSE [mem EXCEPT !.oob = TRUE]

\* The tail of fz_read_line, after the loop.
LineDone(s, mem, si, n, c) ==
    [s |-> s, mem |-> IF n # 0 THEN Store(mem, si, NUL) ELSE mem,
     v |-> IF si = 0 /\ c = EOF THEN "NULL" ELSE "mem", e |-> NoErr]

LineThrow(s, mem, e) == [s |-> s, mem |-> mem, v |-> "NULL", e |-> e]

\* After the peek (p) that saw LF: q is the fz_read_byte that takes it.
line_cr_lf(q, p, mem, si, n) ==
    IF q.e # NoErr THEN LineThrow(q.s, mem, q.e)
    ELSE LineDone(q.s, mem, si, n, p.v)

\* After a CR, the LF that follows left in the stream.
line_cr_keep_lf(p, mem, si, n) ==
    IF p.e # NoErr THEN LineThrow(p.s, mem, p.e)
    ELSE LineDone(p.s, mem, si, n, p.v)

\* After a CR: p is the peek of the byte that follows, read only if it is LF.
line_cr_peeked(p, mem, si, n) ==
    IF p.e # NoErr THEN LineThrow(p.s, mem, p.e)
    ELSE IF p.v = LF THEN line_cr_lf(fz_read_byte(p.s), p, mem, si, n)
    ELSE LineDone(p.s, mem, si, n, p.v)

RECURSIVE fz_read_line_loop(_, _, _, _, _)

\* The body of the loop, r being its fz_read_byte.
line_byte(r, mem, si, n) ==
    IF r.e # NoErr THEN LineThrow(r.s, mem, r.e)
    ELSE IF r.v = EOF THEN LineDone(r.s, mem, si, n, EOF)
    ELSE IF r.v = CR THEN line_cr_peeked(fz_peek_byte(r.s), mem, si, n)
    ELSE IF r.v = LF THEN LineDone(r.s, mem, si, n, LF)
    ELSE fz_read_line_loop(r.s, Store(mem, si, r.v), si + 1, n - 1, r.v)

\* The loop running while (n > 0): one more byte than the terminator leaves
\* room for.
fz_read_line_loop_full(s, mem, si, n, c) ==
    IF n > 0 THEN line_byte(fz_read_byte(s), mem, si, n)
    ELSE LineDone(s, mem, si, n, c)

RECURSIVE line_drain(_, _, _, _)

\* A reader that takes the rest of an over-long line without storing it: r
\* is its fz_read_byte.
line_drained(r, mem, si, n) ==
    IF r.e # NoErr THEN LineThrow(r.s, mem, r.e)
    ELSE IF r.v = EOF \/ r.v = LF THEN LineDone(r.s, mem, si, n, r.v)
    ELSE IF r.v = CR THEN line_cr_peeked(fz_peek_byte(r.s), mem, si, n)
    ELSE line_drain(r.s, mem, si, n)

line_drain(s, mem, si, n) == line_drained(fz_read_byte(s), mem, si, n)

\* The loop that drops the excess of an over-long line.
fz_read_line_loop_dropping(s, mem, si, n, c) ==
    IF n > 1 THEN line_byte(fz_read_byte(s), mem, si, n)
    ELSE IF n = 1 THEN line_drain(s, mem, si, n)
    ELSE LineDone(s, mem, si, n, c)

fz_read_line_loop(s, mem, si, n, c) ==
    IF n > 1 THEN line_byte(fz_read_byte(s), mem, si, n)
    ELSE LineDone(s, mem, si, n, c)

fz_read_line(s, mem, n) == fz_read_line_loop(s, mem, 0, n, EOF)

(***************************************************************************)
(* fz_read_string.  mem is the destination (buffer), bi is buffer - mem,   *)
(* len what is left of the capacity (an int: it may be given <= 0).        *)
(***************************************************************************)
StringThrow(s, mem, e) == [s |-> s, mem |-> mem, v |-> 0, e |-> e]

RECURSIVE fz_read_string_loop(_, _, _, _)

\* The body of the loop after its fz_read_byte (r): *buffer++ = c; len--.
string_byte(r, mem, bi, len) ==
    IF r.e # NoErr THEN StringThrow(r.s, mem, r.e)
    ELSE IF r.v = EOF
    THEN StringThrow(r.s, mem, Generic("EOF reading null terminated string"))
    ELSE IF r.v # 0
    THEN fz_read_string_loop(r.s, Store(mem, bi, r.v), bi + 1, len - 1)
    ELSE [s |-> r.s, mem |-> Store(mem, bi, r.v), v |-> 0, e |-> NoErr]

\* The loop without its test of len.
fz_read_string_unbounded(s, mem, bi, len) ==
    string_byte(fz_read_byte(s), mem, bi, len)

\* do { if (len <= 0) throw; ... } while (c != 0)
fz_read_string_loop(s, mem, bi, len) ==
    IF len <= 0
    THEN StringThrow(s, mem, Generic("Buffer overrun reading null terminated string"))
    ELSE string_byte(fz_read_byte(s), mem, bi, len)

fz_read_string(s, mem, len) == fz_read_string_loop(s, mem, 0, len)

(***************************************************************************)
(* fz_seek.  whence: 0 absolute, 1 relative to the position, 2 to the end. *)
(* Its result tells the warnings given (warns) and the requests made to    *)
(* the source's native seek (asked).                                       *)
(***************************************************************************)
\* stm->seek(ctx, stm, offset, whence): the source's native seek empties the
\* window and sets the position.
stm_seek(s, offset, whence) ==
    LET t == IF whence = 2 THEN Total(s) + offset ELSE offset
    IN  [s EXCEPT !.rp = 0, !.wp = 0, !.pos = t, !.taken = 0]

RECURSIVE fz_seek_loop(_, _, _)

\* The body of the loop, r being its fz_read_byte.
fz_seek_step(r, offset, warns) ==
    IF r.e # NoErr THEN [s |-> r.s, v |-> 0, e |-> r.e, warns |-> warns, asked |-> <<>>]
    ELSE IF r.v = EOF
         THEN [s |-> r.s, v |-> 0, e |-> NoErr,
               warns |-> Append(warns, "seek failed"), asked |-> <<>>]
         ELSE fz_seek_loop(r.s, offset - 1, warns)

\* The loop that stops one byte short: while (offset-- > 1).
fz_seek_loop_short(s, offset, warns) ==
    IF offset > 1 THEN fz_seek_step(fz_read_byte(s), offset, warns)
    ELSE [s |-> s, v |-> 0, e |-> NoErr, warns |-> warns, asked |-> <<>>]

\* while (offset-- > 0)
fz_seek_loop(s, offset, warns) ==
    IF offset > 0 THEN fz_seek_step(fz_read_byte(s), offset, warns)
    ELSE [s |-> s, v |-> 0, e |-> NoErr, warns |-> warns, asked |-> <<>>]

\* The seek whose emulation walks |offset| bytes whatever the sign.
fz_seek_abs(s, offset, whence) ==
    LET s1 == [s EXCEPT !.avail = 0]
    IN  IF s1.seek
        THEN LET off == IF whence = 1 THEN offset + fz_tell(s1) ELSE offset
                 wh == IF whence = 1 THEN 0 ELSE whence
             IN  [s |-> [stm_seek(s1, off, wh) EXCEPT !.eof = FALSE], v |-> 0,
                  e |-> NoErr, warns |-> <<>>,
                  asked |-> <<[offset |-> off, whence |-> wh]>>]
        ELSE IF whence # 2
        THEN LET off == IF whence = 0 THEN offset - fz_tell(s1) ELSE offset
             IN  fz_seek_loop(s1, IF off < 0 THEN -off ELSE off,
                              IF off < 0 THEN <<"cannot seek backwards">> ELSE <<>>)
        ELSE [s |-> s1, v |-> 0, e |-> NoErr, warns |-> <<"cannot seek">>, asked |-> <<>>]

\* The seek that hands the request to the source as it came and leaves eof.
fz_seek_raw(s, offset, whence) ==
    IF s.seek
    THEN [s |-> stm_seek([s EXCEPT !.avail = 0], offset, whence), v |-> 0,
          e |-> NoErr, warns |-> <<>>,
          asked |-> <<[offset |-> offset, whence |-> whence]>>]
    ELSE fz_seek_abs(s, offset, whence)

fz_seek(s, offset, whence) ==
    LET s1 == [s EXCEPT !.avail = 0]
    IN  IF s1.seek
        THEN LET off == IF whence = 1 THEN offset + fz_tell(s1) ELSE offset
                 wh == IF whence = 1 THEN 0 ELSE whence
             IN  [s |-> [stm_seek(s1, off, wh) EXCEPT !.eof = FALSE], v |-> 0,
                  e |-> NoErr, warns |-> <<>>,
                  asked |-> <<[offset |-> off, whence |-> wh]>>]
        ELSE IF whence # 2
        THEN LET off == IF whence = 0 THEN offset - fz_tell(s1) ELSE offset
             IN  fz_seek_loop(s1, off,
                              IF off < 0 THEN <<"cannot seek backwards">> ELSE <<>>)
        ELSE [s |-> s1, v |-> 0, e |-> NoErr, warns |-> <<"cannot seek">>, asked |-> <<>>]

\* fz_read_bits after its fz_read_byte (r), n bits being still wanted.
fz_read_bits_got(r, n) ==
    IF r.e # NoErr THEN [s |-> r.s, v |-> 0, e |-> r.e]
    ELSE [s |-> [r.s EXCEPT !.avail = 8 - n], v |-> 0, e |-> NoErr]

\* fz_read_bits(ctx, stm, n), 1 <= n <= 8: what it does to the accumulator's
\* count and to the stream (the bits themselves are not modelled).
fz_read_bits(s, n) ==
    IF n <= s.avail THEN [s |-> [s EXCEPT !.avail = @ - n], v |-> 0, e |-> NoErr]
    ELSE fz_read_bits_got(fz_read_byte([s EXCEPT !.avail = 0]), n - s.avail)

(***************************************************************************)
(* fz_read_best, the slurp.  A buffer is its len valid bytes (data), its   *)
(* capacity, what a read that threw had already copied past len (tail),    *)
(* and whether len ever went past the capacity (over).  truncated tells    *)
(* whether the caller passed a flag to set.                                *)
(***************************************************************************)
\* fz_new_buffer(ctx, size)
fz_new_buffer(size) ==
    [data |-> <<>>, len |-> 0, cap |-> size, tail |-> <<>>, over |-> FALSE]

\* fz_grow_buffer(ctx, buf): the capacity doubles.
fz_grow_buffer(buf) == [buf EXCEPT !.cap = 2 * @]

\* The guard armed whatever the hint.
bomb_always(check_bomb, buf, initial) ==
    buf.len >= MIN_BOMB /\ buf.len \div BOMB_RATIO > initial

\* The guard of the loop: the length has reached MIN_BOMB and is more than
\* BOMB_RATIO times the (clamped) hint.
bomb(check_bomb, buf, initial) ==
    check_bomb /\ buf.len >= MIN_BOMB /\ buf.len \div BOMB_RATIO > initial

RECURSIVE fz_read_best_loop(_, _, _, _)

\* buf->len += n, after the n bytes of r were copied to the free tail.
Extend(b1, r) ==
    [b1 EXCEPT !.data = RCat(@, r.buf), !.len = @ + r.v,
               !.over = @ \/ b1.len + r.v > b1.cap]

\* The loop left after its first pull.
fz_read_best_pulled_once(r, b1, check_bomb, initial) ==
    IF r.e # NoErr THEN [s |-> r.s, buf |-> [b1 EXCEPT !.tail = r.buf], e |-> r.e]
    ELSE [s |-> r.s, buf |-> Extend(b1, r), e |-> NoErr]

\* The loop after its fz_read (r) into the free tail of b1.
fz_read_best_pulled(r, b1, check_bomb, initial) ==
    IF r.e # NoErr THEN [s |-> r.s, buf |-> [b1 EXCEPT !.tail = r.buf], e |-> r.e]
    ELSE IF r.v = 0 THEN [s |-> r.s, buf |-> b1, e |-> NoErr]
    ELSE fz_read_best_loop(r.s, Extend(b1, r), check_bomb, initial)

\* The loop after the buffer was grown if full: the guard, then the read.
fz_read_best_guarded(s, b1, check_bomb, initial) ==
    IF bomb(check_bomb, b1, initial)
    THEN [s |-> s, buf |-> b1, e |-> Generic("compression bomb detected")]
    ELSE fz_read_best_pulled(fz_read(s, b1.cap - b1.len), b1, check_bomb, initial)

\* The body of fz_try: the loop of fz_read_best.
fz_read_best_loop(s, buf, check_bomb, initial) ==
    fz_read_best_guarded(s, IF buf.len = buf.cap THEN fz_grow_buffer(buf) ELSE buf,
                         check_bomb, initial)

\* What fz_read_best hands to its caller: v the buffer, returned whether the
\* caller gets it (or else an exception, e), dropped whether it was released,
\* trunc the caller's flag (-1 when it passed no flag), caught what fz_catch
\* caught.
Outcome(r, returned, e, trunc) ==
    [s |-> r.s, v |-> r.buf, returned |-> returned, dropped |-> ~returned,
     e |-> e, trunc |-> trunc, caught |-> r.e]

\* The handler without the test for FZ_ERROR_TRYLATER.
fz_read_best_catch_all(r, truncated) ==
    IF r.e = NoErr THEN Outcome(r, TRUE, NoErr, IF truncated THEN 0 ELSE -1)
    ELSE IF truncated THEN Outcome(r, TRUE, NoErr, 1)
    ELSE Outcome(r, FALSE, r.e, -1)

\* The handler that never rethrows.
fz_read_best_catch_swallow(r, truncated) ==
    IF r.e = NoErr THEN Outcome(r, TRUE, NoErr, IF truncated THEN 0 ELSE -1)
    ELSE IF r.e.code = "FZ_ERROR_TRYLATER"
    THEN Outcome(r, FALSE, r.e, IF truncated THEN 0 ELSE -1)
    ELSE Outcome(r, TRUE, NoErr, IF truncated THEN 1 ELSE -1)

\* The handler that lets the bomb error through whatever the mode.
fz_read_best_catch_bomb(r, truncated) ==
    IF r.e = NoErr THEN Outcome(r, TRUE, NoErr, IF truncated THEN 0 ELSE -1)
    ELSE IF r.e.code = "FZ_ERROR_TRYLATER" \/ r.e.msg = "compression bomb detected"
    THEN Outcome(r, FALSE, r.e, IF truncated THEN 0 ELSE -1)
    ELSE IF truncated THEN Outcome(r, TRUE, NoErr, 1)
    ELSE Outcome(r, FALSE, r.e, -1)

\* fz_catch of fz_read_best.
fz_read_best_catch(r, truncated) ==
    IF r.e = NoErr THEN Outcome(r, TRUE, NoErr, IF truncated THEN 0 ELSE -1)
    ELSE IF r.e.code = "FZ_ERROR_TRYLATER"
    THEN Outcome(r, FALSE, r.e, IF truncated THEN 0 ELSE -1)
    ELSE IF truncated THEN Outcome(r, TRUE, NoErr, 1)
    ELSE Outcome(r, FALSE, r.e, -1)

\* initial clamped: if (initial < 1024) initial = 1024
ClampInitial(initial) == IF initial < MIN_INITIAL THEN MIN_INITIAL ELSE initial

fz_read_best(s, initial, truncated) ==
    fz_read_best_catch(
        fz_read_best_loop(s, fz_new_buffer(ClampInitial(initial) + 1), initial > 0,
                          ClampInitial(initial)),
        truncated)

\* fz_read_all(ctx, stm, initial)
fz_read_all(s, initial) == fz_read_best(s, initial, FALSE)

(***************************************************************************)
(* The record of the last call: its name and arguments, what it returned   *)
(* (ret) or threw (err), what it wrote (out), the warnings it gave, the    *)
(* stream before it (pre).                                                 *)
(***************************************************************************)
Call(op, a1, a2, ret, err, out, warns) ==
    [op |-> op, a1 |-> a1, a2 |-> a2, ret |-> ret, err |-> err, out |-> out,
     warns |-> warns, pre |-> stm]

NoCall == [op |-> "none", a1 |-> 0, a2 |-> 0, ret |-> 0, err |-> NoErr,
           out |-> <<>>, warns |-> <<>>, pre |-> <<>>]

(***************************************************************************)
(* Sources.                                                                *)
(***************************************************************************)
RECURSIVE SeqsUpTo(_, _)
SeqsUpTo(S, n) ==
    IF n = 0 THEN {<<>>}
    ELSE LET P == SeqsUpTo(S, n - 1)
         IN  P \cup {Append(q, x) : q \in {p \in P : Len(p) = n - 1}, x \in S}

NewStream(data, chunk, seekable, fkind, fat) ==
    [rp |-> 0, wp |-> 0, pos |-> 0, eof |-> FALSE, avail |-> 0, taken |-> 0,
     seek |-> seekable,
     state |-> [data |-> data, chunk |-> chunk, fkind |-> fkind, fat |-> fat]]

NoFault == [kind |-> "FZ_ERROR_NONE", at |-> 0]

Faults(maxAt) ==
    {NoFault}
    \cup {[kind |-> k, at |-> a] :
            k \in {"FZ_ERROR_GENERIC", "FZ_ERROR_TRYLATER"}, a \in 0..maxAt}

InitWith(sources) ==
    /\ \E x \in sources : stm = NewStream(x.data, x.chunk, x.seek, x.fault.kind, x.fault.at)
    /\ skip_buf = <<Run(0, SKIP_BUF_SIZE)>>
    /\ last = NoCall
    /\ threads = <<>>

Source(d, c, k, f) == [data |-> d, chunk |-> c, seek |-> k, fault |-> f]

(***************************************************************************)
(* Actions: one per call of the API.                                       *)
(***************************************************************************)
Read(len) ==
    \E r \in {fz_read(stm, len)} :
           /\ stm' = r.s
           /\ last' = Call("fz_read", len, 0, r.v, r.e, r.buf, <<>>)
    /\ UNCHANGED <<skip_buf, threads>>

Skip(len) ==
    \E r \in {fz_skip(stm, skip_buf, len)} :
           /\ stm' = r.s
           /\ skip_buf' = r.sb
           /\ last' = Call("fz_skip", len, 0, r.v, r.e, <<>>, <<>>)
    /\ UNCHANGED threads

ReadByte ==
    \E r \in {fz_read_byte(stm)} :
           /\ stm' = r.s
           /\ last' = Call("fz_read_byte", 0, 0, r.v, r.e, <<>>, <<>>)
    /\ UNCHANGED <<skip_buf, threads>>

PeekByte ==
    \E r \in {fz_peek_byte(stm)} :
           /\ stm' = r.s
           /\ last' = Call("fz_peek_byte", 0, 0, r.v, r.e, <<>>, <<>>)
    /\ UNCHANGED <<skip_buf, threads>>

ReadBits(n) ==
    \E r \in {fz_read_bits(stm, n)} :
           /\ stm' = r.s
           /\ last' = Call("fz_read_bits", n, 0, r.v, r.e, <<>>, <<>>)
    /\ UNCHANGED <<skip_buf, threads>>

ReadInt(d) ==
    \E r \in {DecodeBy(d, stm)} :
           /\ stm' = r.s
           /\ last' = Call(d, 0, 0, r.v, r.e, <<>>, <<>>)
    /\ UNCHANGED <<skip_buf, threads>>

ReadLine(n) ==
    \E r \in {fz_read_line(stm, NewMem(n), n)} :
           /\ stm' = r.s
           /\ last' = Call("fz_read_line", n, 0, r.v, r.e, r.mem, <<>>)
    /\ UNCHANGED <<skip_buf, threads>>

ReadString(len) ==
    \E r \in {fz_read_string(stm, NewMem(Max(len, 0)), len)} :
           /\ stm' = r.s
           /\ last' = Call("fz_read_string", len, 0, r.v, r.e, r.mem, <<>>)
    /\ UNCHANGED <<skip_buf, threads>>

Seek(offset, whence) ==
    \E r \in {fz_seek(stm, offset, whence)} :
           /\ stm' = r.s
           /\ last' = Call("fz_seek", offset, whence, r.v, r.e, r.asked, r.warns)
    /\ UNCHANGED <<skip_buf, threads>>

ReadBest(initial, truncated) ==
    \E r \in {fz_read_best(stm, initial, truncated)} :
           /\ stm' = r.s
           /\ last' = Call("fz_read_best", initial, truncated, r.v, r.e,
                           [returned |-> r.returned, dropped |-> r.dropped,
                            trunc |-> r.trunc, caught |-> r.caught], <<>>)
    /\ UNCHANGED <<skip_buf, threads>>

(***************************************************************************)
(* Bulk reads and skips: on short streams delivered in chunks of any size, *)
(* with lengths up to one more than the stream's and one larger than the   *)
(* discard area; and on streams about as long as multiples of the discard  *)
(* area, with such lengths.                                                *)
(***************************************************************************)
\* The lengths around the multiples of the discard area.
BigLens == {k * SKIP_BUF_SIZE + d : k \in 1..MaxMult, d \in {-1, 0, 1}}

Short(s) == Total(s) <= MaxSmall + 1

BulkLens(s) ==
    IF Short(s) THEN 0..(MaxSmall + 1) \cup {SKIP_BUF_SIZE + 1} ELSE {0} \cup BigLens

SmallData == {FromSeq(q) : q \in SeqsUpTo({97, 98}, MaxSmall)}

BigData == {RCat(FromSeq(<<97, 98>>), <<Run(99, n - 2)>>) : n \in BigLens}

BulkSources ==
    {Source(d, c, FALSE, f) : d \in SmallData, c \in {1, 2, ChunkBig}, f \in Faults(1)}
    \cup {Source(d, c, FALSE, NoFault) : d \in BigData, c \in {ChunkBig, SKIP_BUF_SIZE}}

InitBulk == InitWith(BulkSources)

NextBulk ==
    \/ \E len \in BulkLens(stm) : Read(len)
    \/ \E len \in BulkLens(stm) : Skip(len)

SpecBulk == InitBulk /\ [][NextBulk]_vars

(***************************************************************************)
(* The integer decoders, on streams of up to MaxSmall bytes among 0x12,    *)
(* 0x34 and 0xFF, alone or followed by six more bytes.                     *)
(***************************************************************************)
IntData ==
    {FromSeq(q \o tl) : q \in SeqsUpTo({18, 52, 255}, MaxSmall),
                        tl \in {<<>>, <<1, 2, 3, 4, 5, 6>>}}

IntSources ==
    {Source(d, c, FALSE, f) : d \in IntData, c \in {1, ChunkBig}, f \in Faults(1)}

InitInt == InitWith(IntSources)

NextInt ==
    \/ \E d \in Decoders : ReadInt(d)
    \/ ReadByte

SpecInt == InitInt /\ [][NextInt]_vars

(***************************************************************************)
(* The line reader, on streams of up to MaxSmall + 1 bytes among CR, LF    *)
(* and 'a', into destinations of up to MaxSmall + 1 bytes.                 *)
(***************************************************************************)
LineData == {FromSeq(q) : q \in SeqsUpTo({CR, LF, 97}, MaxSmall + 1)}

LineSources ==
    {Source(d, c, FALSE, f) :
        d \in LineData, c \in {1, ChunkBig},
        f \in {NoFault, [kind |-> "FZ_ERROR_GENERIC", at |-> 1]}}

InitLine == InitWith(LineSources)

NextLine ==
    \/ \E n \in 0..(MaxSmall + 1) : ReadLine(n)
    \/ ReadByte
    \/ PeekByte

SpecLine == InitLine /\ [][NextLine]_vars

(***************************************************************************)
(* Seeks, on the streams "", "a", "ab", .. of up to MaxSmall bytes with    *)
(* and without a native seek, between single-byte and bit reads.  A native *)
(* seek is given targets inside the stream only.                           *)
(***************************************************************************)
SeekData == {FromSeq([i \in 1..n |-> 96 + i]) : n \in 0..MaxSmall}

SeekSources ==
    {Source(d, c, k, f) :
        d \in SeekData, c \in {1, ChunkBig}, k \in BOOLEAN,
        f \in {NoFault, [kind |-> "FZ_ERROR_GENERIC", at |-> 1]}}

\* Where seek(offset, whence) on s aims at.
SeekTarget(s, offset, whence) ==
    IF whence = 0 THEN offset
    ELSE IF whence = 1 THEN fz_tell(s) + offset
    ELSE Total(s) + offset

SeekArgs(s) ==
    {a \in ((0 - (MaxSmall + 1))..(MaxSmall + 1)) \X {0, 1, 2} :
        s.seek => SeekTarget(s, a[1], a[2]) \in 0..Total(s)}

InitSeek == InitWith(SeekSources)

NextSeek ==
    \/ \E a \in SeekArgs(stm) : Seek(a[1], a[2])
    \/ ReadByte
    \/ \E n \in {1, 3} : ReadBits(n)

SpecSeek == InitSeek /\ [][NextSeek]_vars

(***************************************************************************)
(* Slurps.  Short streams of up to MaxSmall bytes whose source may fail at *)
(* any offset, read in part before the slurp; streams one initial buffer   *)
(* and up to MaxSmall bytes long whose source may fail once that buffer is *)
(* full;                                                                   *)
(* and streams about as long as MIN_BOMB and as BOMB_RATIO times the hints *)
(* around MIN_BOMB / BOMB_RATIO, and one twice as long as MIN_BOMB,        *)
(* delivered in chunks of ChunkHuge bytes or at once.                      *)
(***************************************************************************)
ChunkHuge == 16777216

\* The capacity of the buffer a slurp with a small hint starts with.
FirstCap == MIN_INITIAL + 1

\* The hint at which MIN_BOMB bytes are just plausible.
FloorHint == MIN_BOMB \div BOMB_RATIO

BombLens ==
    {MIN_BOMB - 1, MIN_BOMB, MIN_BOMB + 1,
     BOMB_RATIO * (FloorHint + 1) - 1, BOMB_RATIO * (FloorHint + 1), 2 * MIN_BOMB}

BombHints == {0, 1, MIN_INITIAL, FloorHint - 1, FloorHint, FloorHint + 1}

SlurpHints(s) == IF Total(s) >= MIN_BOMB - 1 THEN BombHints ELSE {0, MIN_INITIAL}

SlurpSmall == {FromSeq(q) : q \in SeqsUpTo({97, 98}, MaxSmall)}

SlurpMedium == {RCat(<<Run(99, FirstCap)>>, FromSeq(q)) :
                   q \in SeqsUpTo({97, 98}, MaxSmall)}

SlurpBig == {<<Run(99, n)>> : n \in BombLens}

SlurpSources ==
    {Source(d, c, FALSE, f) : d \in SlurpSmall, c \in {1, 2}, f \in Faults(MaxSmall)}
    \cup {Source(d, FirstCap, FALSE, f) :
            d \in SlurpMedium,
            f \in {NoFault} \cup {[kind |-> k, at |-> FirstCap] :
                                    k \in {"FZ_ERROR_GENERIC", "FZ_ERROR_TRYLATER"}}}
    \cup {Source(d, c, FALSE, NoFault) : d \in SlurpBig, c \in {ChunkHuge, MIN_BOMB}}

InitSlurp == InitWith(SlurpSources)

NextSlurp ==
    \/ \E h \in SlurpHints(stm), t \in BOOLEAN : ReadBest(h, t)
    \/ Short(stm) /\ ReadByte

SpecSlurp == InitSlurp /\ [][NextSlurp]_vars

(***************************************************************************)
(* The string reader, on streams of up to MaxSmall + 1 bytes among NUL,    *)
(* 'a' and 'b', into destinations of -1 to MaxSmall + 1 bytes.             *)
(***************************************************************************)
StringData == {FromSeq(q) : q \in SeqsUpTo({NUL, 97, 98}, MaxSmall + 1)}

StringSources ==
    {Source(d, c, FALSE, f) :
        d \in StringData, c \in {1, ChunkBig},
        f \in {NoFault, [kind |-> "FZ_ERROR_GENERIC", at |-> 1]}}

InitString == InitWith(StringSources)

NextString ==
    \/ \E n \in (0 - 1)..(MaxSmall + 1) : ReadString(n)
    \/ ReadByte

SpecString == InitString /\ [][NextString]_vars

(***************************************************************************)
(* Every reading call and seek, in any order, on streams of up to MaxSmall *)
(* bytes among NUL, LF and 'a' without a native seek.                      *)
(***************************************************************************)
MixData == {FromSeq(q) : q \in SeqsUpTo({NUL, LF, 97}, MaxSmall)}

MixSources ==
    {Source(d, c, FALSE, f) :
        d \in MixData, c \in {1, 2},
        f \in {NoFault, [kind |-> "FZ_ERROR_GENERIC", at |-> 1]}}

InitMix == InitWith(MixSources)

NextMix ==
    \/ \E len \in {0, 2} : Read(len)
    \/ \E len \in {1, 2} : Skip(len)
    \/ ReadByte
    \/ PeekByte
    \/ \E n \in {0, 2} : ReadLine(n)
    \/ \E d \in {"fz_read_uint16", "fz_read_uint24_le"} : ReadInt(d)
    \/ \E n \in {1, 2} : ReadString(n)
    \/ \E a \in {<<1, 0>>, <<2, 0>>, <<0 - 1, 1>>, <<1, 1>>, <<0, 2>>} : Seek(a[1], a[2])

SpecMix == InitMix /\ [][NextMix]_vars

(***************************************************************************)
(* fz_skip run by two threads, each on a stream of its own, both on the    *)
(* one skip_buf.  threads[t] is the frame of thread t: its stream (stm;    *)
(* pre is the stream before the call), where it is (pc), the argument      *)
(* (arg), fz_skip's len, total and l, fz_read's len (rlen), count and how  *)
(* far buf is from skip_buf (off), the n bytes of the memcpy under way and *)
(* how many of them are stored (i), and what fz_skip returned or threw.    *)
(* A memcpy stores one byte at a step; the stores of the two threads fall  *)
(* in any order.                                                           *)
(***************************************************************************)
Frame(s) ==
    [stm |-> s, pre |-> s, pc |-> "idle", arg |-> 0, len |-> 0, total |-> 0, l |-> 0,
     rlen |-> 0, count |-> 0, off |-> 0, n |-> 0, i |-> 0, ret |-> 0, err |-> NoErr]

\* skip_buf[k] = c
StoreAt(sb, k, c) == RCat(RCat(RTake(sb, k), <<Run(c, 1)>>), RDrop(sb, k + 1))

\* fz_skip returns total, or is left by the exception e.
SkipReturn(f, total, e) == [f EXCEPT !.pc = "done", !.ret = total, !.err = e]

RECURSIVE SkipTurn(_)

\* After fz_read returned count: total += count; if (count < l) break;
\* len -= count.
AfterRead(f) ==
    IF f.count < f.l THEN SkipReturn(f, f.total + f.count, NoErr)
    ELSE SkipTurn([f EXCEPT !.total = @ + f.count, !.len = @ - f.count])

\* A turn of fz_read's loop, a being what fz_available gave: n = min(a, len),
\* and either the break or the memcpy of n bytes, which begins.
ReadTurn(f, a) ==
    IF a.e # NoErr THEN SkipReturn([f EXCEPT !.stm = a.s], f.total, a.e)
    ELSE IF Min(a.v, f.rlen) = 0 THEN AfterRead([f EXCEPT !.stm = a.s])
    ELSE [f EXCEPT !.stm = a.s, !.pc = "copy", !.n = Min(a.v, f.rlen), !.i = 0]

\* while (len) { l = min(len, sizeof(skip_buf)); count = fz_read(.., l); .. }
SkipTurn(f) ==
    IF f.len = 0 THEN SkipReturn(f, f.total, NoErr)
    ELSE ReadTurn([f EXCEPT !.l = Min(f.len, SKIP_BUF_SIZE),
                            !.rlen = Min(f.len, SKIP_BUF_SIZE),
                            !.count = 0, !.off = 0],
                  fz_available(f.stm, Min(f.len, SKIP_BUF_SIZE)))

\* while (len > 0) of fz_read, g being the frame after the memcpy.
TurnNext(g) ==
    IF g.rlen > 0 THEN ReadTurn(g, fz_available(g.stm, g.rlen)) ELSE AfterRead(g)

\* The end of a turn that forgets to count its bytes.
TurnEndUncounted(f) ==
    TurnNext([f EXCEPT !.stm = Advance(@, f.n), !.off = @ + f.n, !.rlen = @ - f.n])

\* The memcpy done: stm->rp += n; buf += n; count += n; len -= n.
TurnEnd(f) ==
    TurnNext([f EXCEPT !.stm = Advance(@, f.n), !.off = @ + f.n,
                       !.count = @ + f.n, !.rlen = @ - f.n])

\* Thread t calls fz_skip(ctx, its stream, n) and runs up to its first memcpy.
SkipCall(t, n) ==
    /\ threads[t].pc = "idle"
    /\ threads' = [threads EXCEPT ![t] = SkipTurn([@ EXCEPT !.arg = n, !.len = n])]
    /\ UNCHANGED <<stm, skip_buf, last>>

\* The frame after one more byte of its memcpy was stored.
Stored(f) == IF f.i = f.n THEN TurnEnd(f) ELSE f

\* Thread t stores the next byte of its memcpy; after the last one it runs up
\* to its next memcpy or to the return.
SkipStore(t) ==
    /\ threads[t].pc = "copy"
    /\ skip_buf' = StoreAt(skip_buf, threads[t].off + threads[t].i,
                           RAt(threads[t].stm.state.data,
                               fz_tell(threads[t].stm) + threads[t].i))
    /\ threads' = [threads EXCEPT ![t] = Stored([@ EXCEPT !.i = @ + 1])]
    /\ UNCHANGED <<stm, last>>

\* Thread 1 skips in streams of 'a's, thread 2 in streams of 'b's.
RaceStreams(c) ==
    {NewStream(FromSeq([i \in 1..k |-> c]), chunk, FALSE, f.kind, f.at) :
        k \in 0..MaxSmall, chunk \in {1, ChunkBig},
        f \in {NoFault, [kind |-> "FZ_ERROR_GENERIC", at |-> 1]}}

InitRace ==
    /\ stm = NewStream(<<>>, 1, FALSE, NoFault.kind, NoFault.at)
    /\ skip_buf = <<Run(0, SKIP_BUF_SIZE)>>
    /\ last = NoCall
    /\ \E s1 \in RaceStreams(97), s2 \in RaceStreams(98) :
          threads = <<Frame(s1), Frame(s2)>>

NextRace ==
    \/ \E t \in {1, 2}, n \in 0..(MaxSmall + 1) : SkipCall(t, n)
    \/ \E t \in {1, 2} : SkipStore(t)

SpecRace == InitRace /\ [][NextRace]_vars

(***************************************************************************)
(* What the claims speak of.                                               *)
(***************************************************************************)
\* The source of the last call never failed: it held no fault to raise.
NoFaultBefore == last.pre.state.fkind = "FZ_ERROR_NONE"

TellBefore == fz_tell(last.pre)

TellAfter == fz_tell(stm)

RemainingBefore == Remaining(last.pre)

\* C1: fz_read(dest, n) on a stream with k bytes remaining whose source never
\* fails returns min(n, k) without an error, has copied the next min(n, k)
\* bytes of the stream to dest in order, and has advanced tell() by min(n, k).
C1_ReadReturnsMin ==
    (last.op = "fz_read" /\ NoFaultBefore) =>
        LET m == Min(last.a1, RemainingBefore)
        IN  /\ last.err = NoErr
            /\ last.ret = m
            /\ last.out = RSlice(stm.state.data, TellBefore, m)
            /\ RLen(last.out) = m
            /\ TellAfter = TellBefore + m

\* A short read in the middle of a stream delivered one byte at a time.
C1_Witness ==
    /\ last.op = "fz_read"
    /\ NoFaultBefore
    /\ last.pre.state.chunk = 1
    /\ TellBefore = 1
    /\ RemainingBefore = 2
    /\ last.a1 > 2
    /\ last.ret = 2
    /\ last.out = FromSeq(<<98, 97>>)

\* C2: fz_skip(n) on a stream with k bytes remaining whose source never fails
\* returns min(n, k) and advances tell() by that amount, whatever n is to the
\* size of the discard area.
C2_SkipReturnsMin ==
    (last.op = "fz_skip" /\ NoFaultBefore) =>
        LET m == Min(last.a1, RemainingBefore)
        IN  /\ last.err = NoErr
            /\ last.ret = m
            /\ TellAfter = TellBefore + m

\* A skip of one byte more than the discard area, all of it available, from
\* the middle of a stream.
C2_Witness ==
    /\ last.op = "fz_skip"
    /\ NoFaultBefore
    /\ last.a1 = SKIP_BUF_SIZE + 1
    /\ TellBefore = SKIP_BUF_SIZE - 1
    /\ RemainingBefore > last.a1
    /\ last.ret = last.a1
    /\ TellAfter = TellBefore + last.a1

\* The k bytes of the stream from offset from on, as a sequence.
BytesAt(data, from, k) == [i \in 1..k |-> RAt(data, from + i - 1)]

Reverse(q) == [i \in 1..Len(q) |-> q[Len(q) + 1 - i]]

ZeroExtend(q, w) == [i \in 1..(w - Len(q)) |-> 0] \o q

\* The bytes a decoder takes, the bytes of the type it returns, its byte order.
Width(d) ==
    CASE d \in {"fz_read_uint16", "fz_read_uint16_le"} -> 2
      [] d \in {"fz_read_uint24", "fz_read_uint24_le"} -> 3
      [] d \in {"fz_read_uint32", "fz_read_uint32_le"} -> 4
      [] d \in {"fz_read_uint64", "fz_read_uint64_le"} -> 8

ReturnWidth(d) == IF Width(d) = 3 THEN 4 ELSE Width(d)

LittleEndian(d) ==
    d \in {"fz_read_uint16_le", "fz_read_uint24_le", "fz_read_uint32_le",
           "fz_read_uint64_le"}

PrematureMsg(d) ==
    CASE Width(d) = 2 -> "premature end of file in int16"
      [] Width(d) = 3 -> "premature end of file in int24"
      [] Width(d) = 4 -> "premature end of file in int32"
      [] Width(d) = 8 -> "premature end of file in int64"

\* The number a 16-bit value stands for.
Num16(x) == x[1] * 256 + x[2]

\* C5: a decoder of w bits on a stream with at least w/8 bytes remaining
\* (the source not failing) takes exactly w/8 bytes and returns them
\* concatenated, the first byte most significant (big-endian) or least
\* significant (little-endian); [0x12, 0x34] gives 0x1234 and 0x3412.
C5_DecodeConcatenates ==
    (last.op \in Decoders /\ NoFaultBefore /\ RemainingBefore >= Width(last.op)) =>
        LET w == Width(last.op)
            bytes == BytesAt(stm.state.data, TellBefore, w)
        IN  /\ last.err = NoErr
            /\ TellAfter = TellBefore + w
            /\ last.ret = ZeroExtend(IF LittleEndian(last.op) THEN Reverse(bytes)
                                     ELSE bytes, ReturnWidth(last.op))
            /\ (bytes = <<18, 52>> =>
                    Num16(last.ret) = IF LittleEndian(last.op) THEN 13330 ELSE 4660)

\* A little-endian 32-bit decode, off the start of the stream, of bytes among
\* which 0xFF.
C5_Witness ==
    /\ last.op = "fz_read_uint32_le"
    /\ NoFaultBefore
    /\ TellBefore = 1
    /\ RemainingBefore >= 4
    /\ BytesAt(stm.state.data, 1, 4) = <<255, 52, 1, 2>>
    /\ last.ret = <<2, 1, 52, 255>>
    /\ TellAfter = 5

\* C6: a decoder of w bits on a stream with fewer than w/8 bytes remaining
\* (the source not failing) throws the premature-end-of-file error of its
\* width and returns no value, and the bytes that remained are consumed:
\* tell() is then the offset of the end of the stream.
C6_ShortDecodeFails ==
    (last.op \in Decoders /\ NoFaultBefore /\ RemainingBefore < Width(last.op)) =>
        /\ last.err = Generic(PrematureMsg(last.op))
        /\ last.ret = <<>>
        /\ TellAfter = Total(stm)
        /\ TellAfter = TellBefore + RemainingBefore

\* A 32-bit decode with two bytes remaining.
C6_Witness ==
    /\ last.op = "fz_read_uint32"
    /\ NoFaultBefore
    /\ TellBefore = 1
    /\ RemainingBefore = 2
    /\ last.err = Generic("premature end of file in int32")
    /\ TellAfter = 3

\* The bytes that remained in the stream before the last call.
RestBefore == BytesAt(last.pre.state.data, TellBefore, RemainingBefore)

IsTerminator(c) == c = CR \/ c = LF

\* Whether q holds a line terminator, and the number of bytes before the first.
HasTerminator(q) == \E i \in 1..Len(q) : IsTerminator(q[i])

BeforeTerminator(q) ==
    (CHOOSE i \in 1..Len(q) :
        IsTerminator(q[i]) /\ \A j \in 1..(i - 1) : ~IsTerminator(q[j])) - 1

\* The length of the terminator after m bytes of q: 2 for CR LF, else 1.
TerminatorLen(q, m) ==
    IF q[m + 1] = CR /\ m + 2 <= Len(q) /\ q[m + 2] = LF THEN 2 ELSE 1

\* The string in a destination: its bytes before the first NUL.
Text(mem) ==
    IF \E i \in 1..Len(mem.bytes) : mem.bytes[i] = NUL
    THEN SubSeq(mem.bytes, 1,
                (CHOOSE i \in 1..Len(mem.bytes) :
                    mem.bytes[i] = NUL /\ \A j \in 1..(i - 1) : mem.bytes[j] # NUL) - 1)
    ELSE mem.bytes

\* What C3 concludes of a line of m bytes: the call leaves the m bytes in the
\* destination and the stream right after the terminator (after both bytes
\* of CR LF).
LineTaken(m) ==
    /\ last.err = NoErr
    /\ Text(last.out) = SubSeq(RestBefore, 1, m)
    /\ TellAfter = TellBefore + m + TerminatorLen(RestBefore, m)

\* C3 as stated: whenever the line fits in the destination (its m bytes and
\* the NUL: m + 1 <= capacity), fz_read_line returns the bytes before the
\* first terminator and leaves the stream right after that terminator.
C3_Original ==
    (/\ last.op = "fz_read_line"
     /\ NoFaultBefore
     /\ HasTerminator(RestBefore)
     /\ BeforeTerminator(RestBefore) + 1 <= last.a1)
        => LineTaken(BeforeTerminator(RestBefore))

\* C3 amended: that holds when the line is shorter than capacity - 1
\* (m + 2 <= capacity); a line of exactly capacity - 1 bytes is returned whole
\* and its terminator is left unread.
C3_LineAndTerminator ==
    (last.op = "fz_read_line" /\ NoFaultBefore /\ HasTerminator(RestBefore)) =>
        LET m == BeforeTerminator(RestBefore)
        IN  /\ (m + 2 <= last.a1 => LineTaken(m))
            /\ (m + 1 = last.a1 =>
                    /\ last.err = NoErr
                    /\ Text(last.out) = SubSeq(RestBefore, 1, m)
                    /\ TellAfter = TellBefore + m)

\* "a\r\na" read into three bytes: the line is "a", the next byte is the 'a'
\* after the LF.
C3_Witness ==
    /\ last.op = "fz_read_line"
    /\ NoFaultBefore
    /\ last.a1 = 3
    /\ last.pre.state.chunk = 1
    /\ TellBefore = 0
    /\ RestBefore = <<97, CR, LF, 97>>
    /\ Text(last.out) = <<97>>
    /\ TellAfter = 3
    /\ RAt(stm.state.data, TellAfter) = 97

\* C4 as stated: with a capacity of at least 1, fz_read_line returns NULL
\* ("no line") exactly when the stream was already exhausted when the call
\* began, and then it consumed nothing; a call on a stream with bytes left
\* returns a line.
C4_NoLineOnlyWhenExhausted ==
    (last.op = "fz_read_line" /\ NoFaultBefore /\ last.a1 >= 1) =>
        /\ (last.ret = "NULL") <=> (RemainingBefore = 0)
        /\ (last.ret = "NULL" => TellAfter = TellBefore)

(***************************************************************************)
(* C10: on a stream without a native seek, a seek to a target behind the   *)
(* position (an absolute offset below tell(), a negative relative offset)  *)
(* and any seek relative to the end leave rp, wp, pos, eof and the source  *)
(* as they were, so tell() too and no byte is consumed; the call throws    *)
(* nothing, gives exactly one warning and resets the bit accumulator.      *)
(***************************************************************************)
BackwardOrFromEnd ==
    /\ last.op = "fz_seek"
    /\ ~last.pre.seek
    /\ \/ last.a2 = 2
       \/ last.a2 = 0 /\ last.a1 < TellBefore
       \/ last.a2 = 1 /\ last.a1 < 0

C10_BackwardSeekIsNoOp ==
    BackwardOrFromEnd =>
        /\ stm.rp = last.pre.rp
        /\ stm.wp = last.pre.wp
        /\ stm.pos = last.pre.pos
        /\ stm.eof = last.pre.eof
        /\ stm.state = last.pre.state
        /\ TellAfter = TellBefore
        /\ stm.avail = 0
        /\ last.err = NoErr
        /\ last.warns = IF last.a2 = 2 THEN <<"cannot seek">>
                        ELSE <<"cannot seek backwards">>

\* An absolute seek to an offset behind the position, bits being pending.
C10_Witness ==
    /\ BackwardOrFromEnd
    /\ last.a2 = 0
    /\ TellBefore = 2
    /\ last.a1 = 1
    /\ last.pre.avail > 0
    /\ stm.avail = 0
    /\ TellAfter = 2
    /\ last.warns = <<"cannot seek backwards">>

(***************************************************************************)
(* What a slurp meets: the bytes from the position to the end, and whether *)
(* the source raises a fault of a kind while they are pulled.              *)
(***************************************************************************)
Slurped == last.op = "fz_read_best"

Tolerant == last.a2

\* The source is asked for the data at pos, then at each chunk's end up to
\* the end of the data: it raises its fault when asked at the offset fat.
FaultAhead(kind) ==
    /\ last.pre.state.fkind = kind
    /\ ~last.pre.eof
    /\ last.pre.state.fat >= last.pre.pos
    /\ \/ last.pre.state.fat = Total(last.pre)
       \/ /\ last.pre.state.fat < Total(last.pre)
          /\ (last.pre.state.fat - last.pre.pos) % last.pre.state.chunk = 0

NoFaultAhead == \A k \in {"FZ_ERROR_GENERIC", "FZ_ERROR_TRYLATER"} : ~FaultAhead(k)

BombError == Generic("compression bomb detected")

\* The length has reached the floor and a BOMB_RATIO-th of it (rounded down)
\* is more than the hint clamped to MIN_INITIAL.
Implausible(L, h) == L >= MIN_BOMB /\ L \div BOMB_RATIO > Max(h, MIN_INITIAL)

(***************************************************************************)
(* C7 as stated: for every hint h, 0 included, a non-tolerant slurp of L   *)
(* bytes raises the bomb error exactly when L has reached MIN_BOMB and     *)
(* L / BOMB_RATIO exceeds the clamped hint.                                *)
(***************************************************************************)
C7_Original ==
    (Slurped /\ ~Tolerant /\ NoFaultAhead) =>
        (last.err = BombError <=> Implausible(RemainingBefore, last.a1))

(***************************************************************************)
(* C7: for every hint h > 0 a non-tolerant slurp of L bytes raises the     *)
(* bomb error exactly when L has reached MIN_BOMB and L / BOMB_RATIO       *)
(* (rounded down) exceeds the clamped hint; with the hint 0 the guard is   *)
(* off and the slurp returns the L bytes whatever L is.                    *)
(***************************************************************************)
C7_BombGuard ==
    (Slurped /\ ~Tolerant /\ NoFaultAhead) =>
        /\ last.a1 > 0 =>
              (last.err = BombError <=> Implausible(RemainingBefore, last.a1))
        /\ last.a1 = 0 =>
              /\ last.err = NoErr
              /\ last.out.returned
              /\ last.ret.len = RemainingBefore
        /\ last.err \in {NoErr, BombError}
        /\ last.err = BombError => ~last.out.returned /\ last.out.dropped

\* A hint below MIN_INITIAL, MIN_BOMB bytes: the error is raised.
C7_Witness ==
    /\ Slurped /\ ~Tolerant /\ NoFaultAhead
    /\ last.a1 = 1
    /\ RemainingBefore = MIN_BOMB
    /\ last.err = BombError
    /\ ~last.out.returned

(***************************************************************************)
(* C8: when the source raises an error other than FZ_ERROR_TRYLATER during *)
(* a slurp, the tolerant slurp returns normally the buffer of what it had  *)
(* accumulated, with the flag set to 1; the non-tolerant slurp releases    *)
(* the buffer and throws that same error, returning no buffer.  A tolerant *)
(* slurp that meets no error returns with the flag 0.                      *)
(***************************************************************************)
C8_OtherErrors ==
    /\ (Slurped /\ FaultAhead("FZ_ERROR_GENERIC")) =>
          IF Tolerant
          THEN /\ last.err = NoErr
               /\ last.out.returned /\ ~last.out.dropped
               /\ last.out.trunc = 1
               /\ last.out.caught = SourceErr("FZ_ERROR_GENERIC")
               /\ last.ret.len <= last.pre.state.fat - TellBefore
               /\ last.ret.data = RSlice(last.pre.state.data, TellBefore, last.ret.len)
          ELSE /\ last.err = SourceErr("FZ_ERROR_GENERIC")
               /\ ~last.out.returned /\ last.out.dropped
               /\ last.out.trunc = -1
    /\ (Slurped /\ Tolerant /\ NoFaultAhead
           /\ ~(last.a1 > 0 /\ Implausible(RemainingBefore, last.a1))) =>
          /\ last.err = NoErr
          /\ last.out.returned
          /\ last.out.trunc = 0
          /\ last.ret.data = RSlice(last.pre.state.data, TellBefore, RemainingBefore)

\* A tolerant slurp whose source fails once the first buffer is full: the
\* buffer comes back with those FirstCap bytes and the flag set.
C8_Witness ==
    /\ Slurped /\ FaultAhead("FZ_ERROR_GENERIC") /\ Tolerant
    /\ last.pre.state.fat = FirstCap
    /\ last.ret.len = FirstCap
    /\ last.out.returned
    /\ last.out.trunc = 1
    /\ last.err = NoErr

(***************************************************************************)
(* C9: FZ_ERROR_TRYLATER raised by the source during a slurp is thrown to  *)
(* the caller as FZ_ERROR_TRYLATER, tolerant or not: the slurp does not    *)
(* return, the flag is not set to 1 and the buffer is released.            *)
(***************************************************************************)
C9_TryLaterRethrown ==
    (Slurped /\ FaultAhead("FZ_ERROR_TRYLATER")) =>
        /\ last.err = SourceErr("FZ_ERROR_TRYLATER")
        /\ ~last.out.returned
        /\ last.out.dropped
        /\ last.out.trunc # 1
        /\ last.out.trunc = IF Tolerant THEN 0 ELSE -1

\* A tolerant slurp that had a full buffer when the source said try later.
C9_Witness ==
    /\ Slurped /\ FaultAhead("FZ_ERROR_TRYLATER") /\ Tolerant
    /\ last.pre.state.fat = FirstCap
    /\ last.ret.len = FirstCap
    /\ last.err = SourceErr("FZ_ERROR_TRYLATER")
    /\ last.out.dropped
    /\ last.out.trunc = 0

(***************************************************************************)
(* C11: fz_read_string(buffer, len) has three outcomes, which the stream   *)
(* decides.  It succeeds iff a zero byte is among the next min(len,        *)
(* remaining) bytes, and then consumes and writes exactly the bytes up to  *)
(* and including the first zero.  Otherwise, if at least len bytes         *)
(* remained (or len <= 0) it consumes and writes len bytes and throws the  *)
(* buffer-overrun error; if fewer remained it consumes and writes them all *)
(* and throws the EOF error, a different message.  In no outcome is a byte *)
(* stored outside the len bytes of buffer.                                 *)
(***************************************************************************)
OverrunError == Generic("Buffer overrun reading null terminated string")

StringEOFError == Generic("EOF reading null terminated string")

\* The bytes of a destination that were stored to: a prefix of it.
WrittenBytes(mem) ==
    SubSeq(mem.bytes, 1, Cardinality({i \in 1..Len(mem.bytes) : mem.bytes[i] # Unwritten}))

\* The index of the first zero byte of q, q holding one.
FirstZero(q) == CHOOSE i \in 1..Len(q) : q[i] = NUL /\ \A j \in 1..(i - 1) : q[j] # NUL

\* The call consumed the next m bytes and wrote just them.
StringTook(m) ==
    /\ TellAfter = TellBefore + m
    /\ WrittenBytes(last.out) = SubSeq(RestBefore, 1, m)
    /\ \A i \in (m + 1)..Len(last.out.bytes) : last.out.bytes[i] = Unwritten

C11_StringOutcomes ==
    (last.op = "fz_read_string" /\ NoFaultBefore) =>
        /\ ~last.out.oob
        /\ Len(WrittenBytes(last.out)) <= Max(last.a1, 0)
        /\ OverrunError # StringEOFError
        /\ LET near == SubSeq(RestBefore, 1, Min(Max(last.a1, 0), RemainingBefore))
           IN  IF \E i \in 1..Len(near) : near[i] = NUL
               THEN last.err = NoErr /\ StringTook(FirstZero(near))
               ELSE IF RemainingBefore >= last.a1
               THEN last.err = OverrunError /\ StringTook(Max(last.a1, 0))
               ELSE last.err = StringEOFError /\ StringTook(RemainingBefore)

\* Success on "ab\0" with len 3: the terminator is the last byte that fits.
C11_Witness ==
    /\ last.op = "fz_read_string" /\ NoFaultBefore
    /\ RestBefore = <<97, 98, NUL>>
    /\ last.a1 = 3
    /\ last.err = NoErr
    /\ last.out.bytes = <<97, 98, NUL>>
    /\ TellAfter = TellBefore + 3

(***************************************************************************)
(* C12: for every capacity n >= 1 and every stream, fz_read_line stores at *)
(* most n - 1 data bytes and, when it returns, a NUL after them, and no    *)
(* store falls at an index >= n; with n = 0 nothing is stored.             *)
(***************************************************************************)
C12_LineWithinBound ==
    last.op = "fz_read_line" =>
        /\ ~last.out.oob
        /\ Len(last.out.bytes) = last.a1
        /\ last.a1 = 0 => last.out = NewMem(0)
        /\ (last.a1 >= 1 /\ last.err = NoErr) =>
              \E m \in 0..(last.a1 - 1) :
                  /\ \A i \in 1..m : last.out.bytes[i] \notin {NUL, Unwritten}
                  /\ last.out.bytes[m + 1] = NUL
                  /\ \A i \in (m + 2)..last.a1 : last.out.bytes[i] = Unwritten
        /\ (last.a1 >= 1 /\ last.err # NoErr) =>
              Len(WrittenBytes(last.out)) <= last.a1 - 1

\* A line of three bytes into a destination of three: two bytes and the NUL.
C12_Witness ==
    /\ last.op = "fz_read_line" /\ NoFaultBefore
    /\ last.a1 = 3
    /\ RestBefore = <<97, 97, 97, LF>>
    /\ last.out.bytes = <<97, 97, NUL>>
    /\ ~last.out.oob

(***************************************************************************)
(* A line of the stream longer than the destination holds: n >= 1, and     *)
(* more than n - 1 bytes come before the first terminator or the end.      *)
(***************************************************************************)
LineLength == IF HasTerminator(RestBefore) THEN BeforeTerminator(RestBefore)
              ELSE Len(RestBefore)

OverLong ==
    /\ last.op = "fz_read_line" /\ NoFaultBefore
    /\ last.a1 >= 1
    /\ LineLength > last.a1 - 1

(***************************************************************************)
(* C13 as stated: of an over-long line fz_read_line delivers the first     *)
(* n - 1 bytes and consumes the rest of the line with its terminator, so   *)
(* that the stream is left at the beginning of the following line.         *)
(***************************************************************************)
C13_Original ==
    OverLong =>
        /\ Text(last.out) = SubSeq(RestBefore, 1, last.a1 - 1)
        /\ TellAfter = TellBefore + LineLength
                       + (IF HasTerminator(RestBefore)
                          THEN TerminatorLen(RestBefore, LineLength) ELSE 0)

(***************************************************************************)
(* C13: of an over-long line fz_read_line delivers the first n - 1 bytes   *)
(* and consumes only them: the excess bytes and the terminator stay in the *)
(* stream, which is left at the first excess byte, so that the next read   *)
(* delivers the rest of the same line.                                     *)
(***************************************************************************)
C13_ExcessStays ==
    OverLong =>
        /\ last.err = NoErr
        /\ Text(last.out) = SubSeq(RestBefore, 1, last.a1 - 1)
        /\ TellAfter = TellBefore + (last.a1 - 1)
        /\ last.a1 >= 2 => last.ret = "mem"
        /\ Remaining(stm) = RemainingBefore - (last.a1 - 1)

\* "aa\na" into a destination of two bytes: 'a' is delivered, "a\na" stays.
C13_Witness ==
    /\ OverLong
    /\ last.a1 = 2
    /\ RestBefore = <<97, 97, LF, 97>>
    /\ Text(last.out) = <<97>>
    /\ TellAfter = TellBefore + 1

(***************************************************************************)
(* C14: a slurp of a stream whose source does not fail and which does not  *)
(* trip the bomb guard returns a buffer holding exactly the bytes that     *)
(* remained, in order, its length being their number; the length never     *)
(* went past the capacity, also when the bytes fill a capacity exactly and *)
(* the buffer has to grow; afterwards the stream is exhausted.             *)
(***************************************************************************)
CleanSlurp ==
    /\ Slurped /\ NoFaultAhead
    /\ ~(last.a1 > 0 /\ Implausible(RemainingBefore, last.a1))

C14_SlurpReturnsAll ==
    CleanSlurp =>
        /\ last.err = NoErr
        /\ last.out.returned /\ ~last.out.dropped
        /\ last.ret.data = RSlice(last.pre.state.data, TellBefore, RemainingBefore)
        /\ last.ret.len = RemainingBefore
        /\ RLen(last.ret.data) = last.ret.len
        /\ last.ret.len <= last.ret.cap
        /\ ~last.ret.over
        /\ TellAfter = TellBefore + RemainingBefore
        /\ Remaining(stm) = 0
        /\ stm.eof
        /\ stm.rp = stm.wp

\* The stream fills the first buffer exactly: the buffer grew once.
C14_Witness ==
    /\ CleanSlurp
    /\ TellBefore = 0
    /\ RemainingBefore = FirstCap
    /\ last.ret.len = FirstCap
    /\ last.ret.cap > FirstCap
    /\ stm.eof

(***************************************************************************)
(* C15: on a stream without a native seek, opened at offset 0, after any   *)
(* sequence of reads, skips, byte reads, line, integer and string decodes  *)
(* and seeks, rp <= wp, and tell() = pos - (wp - rp) is the number of      *)
(* bytes taken so far; and no call makes tell() smaller.                   *)
(***************************************************************************)
C15_TellCountsConsumed ==
    ~stm.seek =>
        /\ stm.rp <= stm.wp
        /\ fz_tell(stm) = stm.pos - (stm.wp - stm.rp)
        /\ fz_tell(stm) = stm.taken
        /\ last.op # "none" => TellAfter >= TellBefore

\* A backward seek after two bytes were taken, one more waiting in the window.
C15_Witness ==
    /\ ~stm.seek
    /\ last.op = "fz_seek"
    /\ last.warns = <<"cannot seek backwards">>
    /\ stm.taken = 2
    /\ fz_tell(stm) = 2
    /\ stm.wp - stm.rp = 1
    /\ stm.pos = 3

(***************************************************************************)
(* C16: on a stream without a native seek whose source does not fail, a    *)
(* seek forward to T (absolute T >= tell(), or relative d >= 0 with        *)
(* T = tell() + d) ends with tell() = min(T, E), E being the offset of the *)
(* end of the stream: T - tell() bytes are taken when that many remain,    *)
(* with no warning; when the stream ends first the seek stops at E with    *)
(* the warning "seek failed" and no error.                                 *)
(***************************************************************************)
ForwardSeek ==
    /\ last.op = "fz_seek"
    /\ ~last.pre.seek
    /\ NoFaultBefore
    /\ \/ last.a2 = 0 /\ last.a1 >= TellBefore
       \/ last.a2 = 1 /\ last.a1 >= 0

C16_ForwardSeekEmulated ==
    ForwardSeek =>
        LET T == SeekTarget(last.pre, last.a1, last.a2)
            E == Total(last.pre)
        IN  /\ last.err = NoErr
            /\ TellAfter = Min(T, E)
            /\ stm.taken - last.pre.taken = Min(T, E) - TellBefore
            /\ last.warns = IF T > E THEN <<"seek failed">> ELSE <<>>
            /\ stm.avail = 0

\* A relative seek of 3 from offset 1 of a stream of 3 bytes: it stops at the
\* end, with the warning.
C16_Witness ==
    /\ ForwardSeek
    /\ last.a2 = 1 /\ last.a1 = 3
    /\ TellBefore = 1
    /\ Total(last.pre) = 3
    /\ TellAfter = 3
    /\ last.warns = <<"seek failed">>
    /\ last.err = NoErr

(***************************************************************************)
(* C17: on a stream with a native seek, every fz_seek sets avail to 0,     *)
(* makes exactly one request to the source (whence 1 as whence 0 with the  *)
(* offset tell() + offset, tell() being that before the call; whence 0 and *)
(* 2 as given), and clears eof: the window is empty at the target, and a   *)
(* stream that had reached its end delivers the byte at a target before    *)
(* the end.                                                                *)
(***************************************************************************)
NativeSeek == last.op = "fz_seek" /\ last.pre.seek

C17_NativeSeekDelegates ==
    NativeSeek =>
        LET T == SeekTarget(last.pre, last.a1, last.a2)
        IN  /\ last.out = <<IF last.a2 = 1
                            THEN [offset |-> TellBefore + last.a1, whence |-> 0]
                            ELSE [offset |-> last.a1, whence |-> last.a2]>>
            /\ stm.avail = 0
            /\ ~stm.eof
            /\ last.err = NoErr /\ last.warns = <<>>
            /\ TellAfter = T
            /\ stm.rp = stm.wp
            /\ (T < Total(stm) /\ stm.state.fkind = "FZ_ERROR_NONE") =>
                  fz_read_byte(stm).v = RAt(stm.state.data, T)

\* A stream of three bytes that had reached its end, bits pending, moved back
\* by two: the byte at offset 1 is the next.
C17_Witness ==
    /\ NativeSeek
    /\ last.pre.eof
    /\ last.pre.avail > 0
    /\ TellBefore = 3
    /\ last.a2 = 1 /\ last.a1 = 0 - 2
    /\ last.out = <<[offset |-> 1, whence |-> 0]>>
    /\ ~stm.eof
    /\ stm.avail = 0
    /\ fz_read_byte(stm).v = 98

(***************************************************************************)
(* C18: in a tolerant slurp cut short by an error of the source other than *)
(* FZ_ERROR_TRYLATER, the buffer returned holds every byte taken from the  *)
(* stream: its length is tell() after the call minus tell() before it, and *)
(* its contents are those bytes in order, also when the error came inside  *)
(* an fz_read that had already copied bytes.                               *)
(***************************************************************************)
C18_PartialBufferComplete ==
    (Slurped /\ Tolerant /\ FaultAhead("FZ_ERROR_GENERIC")) =>
        /\ last.out.returned
        /\ last.ret.len = TellAfter - TellBefore
        /\ last.ret.data = RSlice(last.pre.state.data, TellBefore, TellAfter - TellBefore)

(***************************************************************************)
(* C19: the bomb error is handled as any error other than                  *)
(* FZ_ERROR_TRYLATER.  A tolerant slurp that trips the guard throws        *)
(* nothing: it returns the buffer accumulated so far, of at least MIN_BOMB *)
(* bytes, with the flag set to 1, and leaves the rest of the stream        *)
(* unread; a non-tolerant one throws the bomb error and returns no buffer. *)
(***************************************************************************)
TripsGuard ==
    /\ Slurped /\ NoFaultAhead
    /\ last.a1 > 0
    /\ Implausible(RemainingBefore, last.a1)

C19_BombTolerated ==
    TripsGuard =>
        /\ last.out.caught = BombError
        /\ IF Tolerant
           THEN /\ last.err = NoErr
                /\ last.out.returned /\ ~last.out.dropped
                /\ last.out.trunc = 1
                /\ last.ret.len >= MIN_BOMB
                /\ last.ret.len <= RemainingBefore
                /\ last.ret.data = RSlice(last.pre.state.data, TellBefore, last.ret.len)
                /\ TellAfter = TellBefore + last.ret.len
                /\ Remaining(stm) = RemainingBefore - last.ret.len
           ELSE /\ last.err = BombError
                /\ ~last.out.returned /\ last.out.dropped
                /\ last.out.trunc = -1

\* A tolerant slurp of twice MIN_BOMB bytes with the hint 1: the buffer comes
\* back before the end of the stream.
C19_Witness ==
    /\ TripsGuard /\ Tolerant
    /\ last.a1 = 1
    /\ RemainingBefore = 2 * MIN_BOMB
    /\ last.out.returned
    /\ last.out.trunc = 1
    /\ last.ret.len >= MIN_BOMB
    /\ Remaining(stm) > 0

(***************************************************************************)
(* C20: two threads skipping at once, each in its own stream, both store   *)
(* to the one skip_buf, and in whatever order their stores fall each       *)
(* fz_skip whose source does not fail returns min(n, remaining) of its own *)
(* stream and moves that stream by as much; a stream whose thread has not  *)
(* called is not moved.                                                    *)
(***************************************************************************)
C20_RacingSkipsReturnMin ==
    \A t \in {1, 2} :
        /\ threads[t].pc = "idle" => threads[t].stm = threads[t].pre
        /\ fz_tell(threads[t].stm) <= fz_tell(threads[t].pre) + threads[t].arg
        /\ (threads[t].pc = "done" /\ threads[t].pre.state.fkind = "FZ_ERROR_NONE") =>
              /\ threads[t].err = NoErr
              /\ threads[t].ret = Min(threads[t].arg, Remaining(threads[t].pre))
              /\ fz_tell(threads[t].stm) = fz_tell(threads[t].pre) + threads[t].ret
              /\ threads[t].stm.state = threads[t].pre.state

\* Both threads are inside a memcpy to skip_buf, each with bytes stored and
\* bytes to store: skip_buf[0] holds the byte of thread 2, skip_buf[1] that of
\* thread 1.
C20_Witness ==
    /\ \A t \in {1, 2} :
          /\ threads[t].pc = "copy"
          /\ threads[t].n = 3
          /\ threads[t].i \in {1, 2}
    /\ RAt(skip_buf, 0) = 98
    /\ RAt(skip_buf, 1) = 97

====
